---- MODULE Spec2Model ----
(***************************************************************************)
(* ConseilJS: the operation submission pipeline (TezosOperations) and the  *)
(* encrypted wallet file (TezosWallet).                                    *)
(*                                                                         *)
(* Every async function is modelled one action per await: the action is    *)
(* the remote call together with the synchronous continuation that runs    *)
(* when the call's promise settles.  The Tezos node, the file system and   *)
(* CryptoUtils are collaborators: the node and the file system answer      *)
(* nondeterministically (success with some value, or failure).             *)
(***************************************************************************)
EXTENDS Integers, Sequences, FiniteSets, TLC

\* ------------------------------------------------------------------ bounds
\* Blocks the chain may grow beyond the genesis block of the model.
MaxHead == 1
\* Length of a detached signature in the model (64 bytes in ed25519).
SigLen == 2

\* ----------------------------------------------------------- JS values
\* undefined / null of JavaScript (x != null is false for both).
Null == "<null>"

\* ------------------------------------------------------------ strings
Digits == <<"0", "1", "2", "3", "4", "5", "6", "7", "8", "9">>

\* Number.prototype.toString() of a non-negative integer.
RECURSIVE toString(_)
toString(n) ==
    IF n < 10 THEN Digits[n + 1]
    ELSE toString(n \div 10) \o Digits[(n % 10) + 1]

\* Hex strings are sequences of hex characters; bytes are 0..255.
HexDigits == <<"0", "1", "2", "3", "4", "5", "6", "7",
               "8", "9", "a", "b", "c", "d", "e", "f">>

HexVal(c) == CHOOSE v \in 0..15 : HexDigits[v + 1] = c

\* sodium.from_hex
from_hex(h) ==
    [i \in 1..(Len(h) \div 2) |-> 16 * HexVal(h[2 * i - 1]) + HexVal(h[2 * i])]

\* sodium.to_hex
to_hex(b) ==
    [i \in 1..(2 * Len(b)) |->
        IF i % 2 = 1 THEN HexDigits[(b[(i + 1) \div 2] \div 16) + 1]
        ELSE HexDigits[(b[i \div 2] % 16) + 1]]

\* ------------------------------------------------- CryptoUtils (collaborator)
\* A checksum-encoded string: the prefix tag and the bytes it carries.
base58CheckEncode(bytes, prefix) == [prefix |-> prefix, payload |-> bytes]

\* Decoding fails (throws) when the prefix is not the one asked for.
base58CheckDecodes(str, prefix) == str.prefix = prefix
base58CheckDecode(str, prefix) == str.payload

\* A digest of a byte sequence that depends on every byte and on the order.
Checksum(b) ==
    LET digest[i \in 0..Len(b)] ==
            IF i = 0 THEN 7 ELSE (31 * digest[i - 1] + b[i]) % 256
    IN  digest[Len(b)]

\* sodium.crypto_generichash(len, bytes)
crypto_generichash(len, bytes) ==
    LET c == Checksum(bytes)
    IN  [i \in 1..len |-> (c + 13 * i) % 256]

\* sodium.crypto_sign_detached(message, privateKey)
crypto_sign_detached(msg, sk) ==
    LET c == Checksum(msg \o sk)
    IN  [i \in 1..SigLen |-> (c + 17 * i) % 256]

\* ------------------------------------------------------------- identities
GoodKeyStore ==
    [publicKey     |-> base58CheckEncode(<<11>>, "edpk"),
     privateKey    |-> base58CheckEncode(<<21, 22>>, "edsk"),
     publicKeyHash |-> "tz1Sender"]

\* An identity whose private key does not decode under edsk.
BadKeyStore ==
    [publicKey     |-> base58CheckEncode(<<12>>, "edpk"),
     privateKey    |-> base58CheckEncode(<<23, 24>>, "edpk"),
     publicKeyHash |-> "tz1Broken"]

KeyStores == {GoodKeyStore, BadKeyStore}

\* Property read: an absent property reads as undefined.
Prop(obj, name) == IF name \in DOMAIN obj THEN obj[name] ELSE Null

\* ------------------------------------------------- TezosNode (collaborator)
Procs == {1, 2}

Protocols == <<"PsddFKi3", "PtCJ7pwo">>

\* Account counters the genesis block of the model may hold.
InitCounters == {41}

\* Hex strings forgeOperation may return.
ForgedHex == {<<"a", "b">>, <<"0", "3", "c", "d">>}

\* Operation group ids injectOperation may return.
InjectedIds == {base58CheckEncode(<<1>>, "op"), base58CheckEncode(<<2>>, "op")}

\* kind values of an apply result: absent, a supported one, an error class.
EnvelopeKinds == {Null, "transaction", "temporary"}

\* contents arrays of an apply result.
ContentLists ==
    {<< >>,
     <<[kind |-> "reveal"], [kind |-> "origination"], [kind |-> "delegation"]>>,
     <<[kind |-> "activate_account"], [kind |-> "branch"]>>,
     <<[metadata |-> "failed"]>>}

EnvelopeId(k) == IF k \in {Null, "transaction"} THEN Null ELSE "proto.error"

\* First elements of the array applyOperation may return.
AppliedFirsts ==
    {[kind |-> k, id |-> EnvelopeId(k), contents |-> c] :
        k \in EnvelopeKinds, c \in ContentLists}
    \cup {[kind |-> k, id |-> EnvelopeId(k)] : k \in EnvelopeKinds}

\* First elements whose contents carry a diagnostic of their own, or none,
\* beside the one of the envelope.
DiagnosedFirsts ==
    {[kind |-> Null, id |-> "proto.envelope",
      contents |-> <<[kind |-> "transaction"],
                     [kind |-> "branch", id |-> "proto.content"]>>],
     [kind |-> "transaction", id |-> "proto.envelope",
      contents |-> <<[kind |-> "branch"]>>]}

RejectedTail == [kind |-> "permanent", id |-> "proto.tail", contents |-> <<[kind |-> "branch"]>>]

\* Arrays applyOperation may return.
AppliedResults ==
    {<< >>} \cup {<<f>> : f \in AppliedFirsts} \cup {<<f>> : f \in DiagnosedFirsts}
    \cup {<<f, RejectedTail>> : f \in {g \in AppliedFirsts : g.kind = Null}}

\* Records getAccountManagerForBlock may return: a revealed key, a null key,
\* no key at all.
ManagerKeys ==
    {[manager |-> "tz1Sender", key |-> "edpkRevealed"],
     [manager |-> "tz1Sender", key |-> Null],
     [manager |-> "tz1Sender"]}

VARIABLES
    chain,      \* the node's blocks, oldest first: [hash, protocol, counter]
    mempool,    \* the hex payloads the node has accepted for propagation
    frame,      \* per caller: the call in flight, its locals and its outcome
    file,       \* the text of the wallet file, NoFile before the first write
    wframe,     \* the wallet call in flight, its locals and its outcome
    wlog        \* the two wallet calls completed last, oldest first

pipelineVars == <<chain, mempool, frame>>
walletVars == <<file, wframe, wlog>>

\* TezosNode.getBlockHead: the newest block.
getBlockHead == [hash |-> Len(chain) - 1, protocol |-> chain[Len(chain)].protocol]

\* TezosNode.getAccountForBlock: the account as of the block with that hash.
getAccountForBlock(blockHash, pkh) == [counter |-> chain[blockHash + 1].counter]

NewBlock(n, counter) ==
    [hash |-> n, protocol |-> Protocols[(n % 2) + 1], counter |-> counter]

\* ------------------------------------------------------- TezosOperations
IdleFrame ==
    [pc |-> "idle", fn |-> Null, keyStore |-> Null, args |-> Null,
     wHead |-> Null, account |-> Null, operations |-> Null,
     blockHead |-> Null, forgePayload |-> Null, forgedOperationGroup |-> Null,
     signedOpGroup |-> Null, operationGroupHash |-> Null,
     applyPayload |-> Null, appliedOp |-> Null, injectPayload |-> Null,
     injectedOperation |-> Null, managerRequest |-> Null, managerKey |-> Null,
     result |-> Null, error |-> Null, trace |-> << >>]

RemoteCallFailure(call) == [type |-> "RemoteCallFailure", from |-> call, id |-> Null]
KeyDecodingFailure == [type |-> "KeyDecodingFailure", from |-> "base58CheckDecode", id |-> Null]
ValidationError(id) == [type |-> "Error", from |-> "checkAppliedOperationResults", id |-> id]
TypeError == [type |-> "TypeError", from |-> "checkAppliedOperationResults", id |-> Null]
NoError == [type |-> "none", from |-> Null, id |-> Null]

watermark == <<"0", "3">>
HashLen == 32

\* Mutant: the watermarked bytes are the ones kept in the signed payload.
signOperationGroup_watermarked(forgedOperation, keyStore) ==
    LET watermarkedForgedOperationBytes == from_hex(watermark \o forgedOperation)
        privateKeyBytes == base58CheckDecode(keyStore.privateKey, "edsk")
        hashedWatermarkedOpBytes == crypto_generichash(HashLen, watermarkedForgedOperationBytes)
        opSignature == crypto_sign_detached(hashedWatermarkedOpBytes, privateKeyBytes)
        hexSignature == base58CheckEncode(opSignature, "edsig")
        signedOpBytes == watermarkedForgedOperationBytes \o opSignature
    IN  [bytes |-> signedOpBytes, signature |-> hexSignature]

\* signOperationGroup, given a private key that decodes.
signOperationGroup(forgedOperation, keyStore) ==
    LET watermarkedForgedOperationBytes == from_hex(watermark \o forgedOperation)
        privateKeyBytes == base58CheckDecode(keyStore.privateKey, "edsk")
        hashedWatermarkedOpBytes == crypto_generichash(HashLen, watermarkedForgedOperationBytes)
        opSignature == crypto_sign_detached(hashedWatermarkedOpBytes, privateKeyBytes)
        hexSignature == base58CheckEncode(opSignature, "edsig")
        signedOpBytes == from_hex(forgedOperation) \o opSignature
    IN  [bytes |-> signedOpBytes, signature |-> hexSignature]

computeOperationHash(signedOpGroup) ==
    base58CheckEncode(crypto_generichash(HashLen, signedOpGroup.bytes), "op")

\* The payload forgeOperations hands to TezosNode.forgeOperation.
ForgePayload(blockHead, operations) ==
    [branch |-> blockHead.hash, contents |-> operations]

\* The payload applyOperation hands to TezosNode.applyOperation.
ApplyPayload(blockHead, operations, signedOpGroup) ==
    <<[protocol  |-> blockHead.protocol,
       branch    |-> blockHead.hash,
       contents  |-> operations,
       signature |-> signedOpGroup.signature]>>

\* The payload injectOperation hands to TezosNode.injectOperation.
InjectPayload(signedOpGroup) == to_hex(signedOpGroup.bytes)

validAppliedKinds ==
    {"activate_account", "reveal", "transaction", "origination", "delegation"}

\* Mutant: only the envelope kind is checked.
checkAppliedOperationResults_envelopeOnly(appliedOp) ==
    IF Len(appliedOp) = 0 THEN TypeError
    ELSE LET firstAppliedOp == appliedOp[1]
             kind == Prop(firstAppliedOp, "kind")
         IN  IF kind # Null /\ kind \notin validAppliedKinds
             THEN ValidationError(Prop(firstAppliedOp, "id"))
             ELSE IF "contents" \notin DOMAIN firstAppliedOp THEN TypeError
             ELSE NoError

\* Mutant: a content entry is rejected only for a kind it has.
checkAppliedOperationResults_lenientContents(appliedOp) ==
    IF Len(appliedOp) = 0 THEN TypeError
    ELSE LET firstAppliedOp == appliedOp[1]
             kind == Prop(firstAppliedOp, "kind")
         IN  IF kind # Null /\ kind \notin validAppliedKinds
             THEN ValidationError(Prop(firstAppliedOp, "id"))
             ELSE IF "contents" \notin DOMAIN firstAppliedOp THEN TypeError
             ELSE LET contents == firstAppliedOp.contents
                      bad == {i \in 1..Len(contents) :
                                 /\ Prop(contents[i], "kind") # Null
                                 /\ Prop(contents[i], "kind") \notin validAppliedKinds}
                  IN  IF bad = {} THEN NoError
                      ELSE LET first == CHOOSE i \in bad : \A j \in bad : i <= j
                           IN  ValidationError(Prop(contents[first], "id"))

\* Mutant: every element of the array is validated, not only the first.
checkAppliedOperationResults_everyElement(appliedOp) ==
    IF Len(appliedOp) = 0 THEN TypeError
    ELSE LET Thrown(op) ==
                 LET kind == Prop(op, "kind")
                 IN  IF kind # Null /\ kind \notin validAppliedKinds
                     THEN ValidationError(Prop(op, "id"))
                     ELSE IF "contents" \notin DOMAIN op THEN TypeError
                     ELSE LET contents == op.contents
                              bad == {i \in 1..Len(contents) :
                                         Prop(contents[i], "kind") \notin validAppliedKinds}
                          IN  IF bad = {} THEN NoError
                              ELSE LET first == CHOOSE i \in bad : \A j \in bad : i <= j
                                   IN  ValidationError(Prop(contents[first], "id"))
             failing == {n \in 1..Len(appliedOp) : Thrown(appliedOp[n]) # NoError}
         IN  IF failing = {} THEN NoError
             ELSE Thrown(appliedOp[CHOOSE n \in failing : \A m \in failing : n <= m])

\* Mutant: a first result without contents is taken to have none to check.
checkAppliedOperationResults_optionalContents(appliedOp) ==
    IF Len(appliedOp) = 0 THEN TypeError
    ELSE LET firstAppliedOp == appliedOp[1]
             kind == Prop(firstAppliedOp, "kind")
         IN  IF kind # Null /\ kind \notin validAppliedKinds
             THEN ValidationError(Prop(firstAppliedOp, "id"))
             ELSE IF "contents" \notin DOMAIN firstAppliedOp THEN NoError
             ELSE LET contents == firstAppliedOp.contents
                      bad == {i \in 1..Len(contents) :
                                 Prop(contents[i], "kind") \notin validAppliedKinds}
                  IN  IF bad = {} THEN NoError
                      ELSE LET first == CHOOSE i \in bad : \A j \in bad : i <= j
                           IN  ValidationError(Prop(contents[first], "id"))

\* checkAppliedOperationResults: NoError when it returns, else what it throws.
checkAppliedOperationResults(appliedOp) ==
    IF Len(appliedOp) = 0 THEN TypeError
    ELSE LET firstAppliedOp == appliedOp[1]
             kind == Prop(firstAppliedOp, "kind")
         IN  IF kind # Null /\ kind \notin validAppliedKinds
             THEN ValidationError(Prop(firstAppliedOp, "id"))
             ELSE IF "contents" \notin DOMAIN firstAppliedOp THEN TypeError
             ELSE LET contents == firstAppliedOp.contents
                      bad == {i \in 1..Len(contents) :
                                 Prop(contents[i], "kind") \notin validAppliedKinds}
                  IN  IF bad = {} THEN NoError
                      ELSE LET first == CHOOSE i \in bad : \A j \in bad : i <= j
                           IN  ValidationError(Prop(contents[first], "id"))

\* ---- the content each wrapper builds
\* Mutant: amount and fee change places.
transaction_swapped(keyStore, to, amount, fee, account) ==
    [destination   |-> to,
     amount        |-> toString(fee),
     storage_limit |-> "0",
     gas_limit     |-> "120",
     counter       |-> toString(account.counter + 1),
     fee           |-> toString(amount),
     source        |-> keyStore.publicKeyHash,
     kind          |-> "transaction",
     parameters    |-> [prim |-> "Unit", args |-> << >>]]

transaction(keyStore, to, amount, fee, account) ==
    [destination   |-> to,
     amount        |-> toString(amount),
     storage_limit |-> "0",
     gas_limit     |-> "120",
     counter       |-> toString(account.counter + 1),
     fee           |-> toString(fee),
     source        |-> keyStore.publicKeyHash,
     kind          |-> "transaction",
     parameters    |-> [prim |-> "Unit", args |-> << >>]]

\* Mutant: the counter read is used as it is.
delegation_sameCounter(keyStore, delegate, fee, account) ==
    [kind          |-> "delegation",
     source        |-> keyStore.publicKeyHash,
     fee           |-> toString(fee),
     counter       |-> toString(account.counter),
     storage_limit |-> "0",
     gas_limit     |-> "120",
     delegate      |-> delegate]

delegation(keyStore, delegate, fee, account) ==
    [kind          |-> "delegation",
     source        |-> keyStore.publicKeyHash,
     fee           |-> toString(fee),
     counter       |-> toString(account.counter + 1),
     storage_limit |-> "0",
     gas_limit     |-> "120",
     delegate      |-> delegate]

origination(keyStore, amount, delegate, spendable, delegatable, fee, account) ==
    [kind          |-> "origination",
     source        |-> keyStore.publicKeyHash,
     fee           |-> toString(fee),
     counter       |-> toString(account.counter + 1),
     gas_limit     |-> "120",
     storage_limit |-> "0",
     managerPubkey |-> keyStore.publicKeyHash,
     balance       |-> toString(amount),
     spendable     |-> spendable,
     delegatable   |-> delegatable,
     delegate      |-> delegate]

revealOp(keyStore, fee, account) ==
    [kind          |-> "reveal",
     source        |-> keyStore.publicKeyHash,
     fee           |-> toString(fee),
     counter       |-> toString(account.counter + 1),
     gas_limit     |-> "120",
     storage_limit |-> "0",
     public_key    |-> keyStore.publicKey]

\* Mutant: the activation carries a counter like the other kinds.
activation_withCounter(keyStore, activationCode) ==
    [kind    |-> "activate_account",
     pkh     |-> keyStore.publicKeyHash,
     secret  |-> activationCode,
     counter |-> "1"]

activation(keyStore, activationCode) ==
    [kind   |-> "activate_account",
     pkh    |-> keyStore.publicKeyHash,
     secret |-> activationCode]

\* The operations list a counter-bearing wrapper hands to sendOperation.
WrapperOperations(fn, keyStore, a, account) ==
    CASE fn = "sendTransactionOperation" ->
            <<transaction(keyStore, a.to, a.amount, a.fee, account)>>
      [] fn = "sendDelegationOperation" ->
            <<delegation(keyStore, a.delegate, a.fee, account)>>
      [] fn = "sendOriginationOperation" ->
            <<origination(keyStore, a.amount, a.delegate, a.spendable,
                          a.delegatable, a.fee, account)>>
      [] fn = "sendKeyRevealOperation" ->
            <<revealOp(keyStore, a.fee, account)>>

CounterWrappers ==
    {"sendTransactionOperation", "sendDelegationOperation",
     "sendOriginationOperation", "sendKeyRevealOperation"}

Wrappers == CounterWrappers \cup {"sendIdentityActivationOperation"}

\* ---- frame updates
Set(p, f) == frame' = [frame EXCEPT ![p] = f]

Throw(p, f, call, err) ==
    Set(p, [f EXCEPT !.pc = "failed", !.error = err, !.trace = @ \o call])

\* Mutant: a wrapper waits until no other submission is in flight.
EnterWrapper_serialized(p, fn, keyStore, args) ==
    /\ frame[p].pc = "idle"
    /\ \A q \in Procs \ {p} : frame[q].pc = "idle"
    /\ Set(p, [IdleFrame EXCEPT !.pc = "w_head", !.fn = fn,
                                !.keyStore = keyStore, !.args = args])
    /\ UNCHANGED <<chain, mempool, walletVars>>

\* A wrapper is called: its first remote call is now pending.
EnterWrapper(p, fn, keyStore, args) ==
    /\ frame[p].pc = "idle"
    /\ Set(p, [IdleFrame EXCEPT !.pc = "w_head", !.fn = fn,
                                !.keyStore = keyStore, !.args = args])
    /\ UNCHANGED <<chain, mempool, walletVars>>

sendTransactionOperation(p, keyStore, to, amount, fee) ==
    EnterWrapper(p, "sendTransactionOperation", keyStore,
                 [to |-> to, amount |-> amount, fee |-> fee])

sendDelegationOperation(p, keyStore, delegate, fee) ==
    EnterWrapper(p, "sendDelegationOperation", keyStore,
                 [delegate |-> delegate, fee |-> fee])

sendOriginationOperation(p, keyStore, amount, delegate, spendable, delegatable, fee) ==
    EnterWrapper(p, "sendOriginationOperation", keyStore,
                 [amount |-> amount, delegate |-> delegate, spendable |-> spendable,
                  delegatable |-> delegatable, fee |-> fee])

sendKeyRevealOperation(p, keyStore, fee) ==
    EnterWrapper(p, "sendKeyRevealOperation", keyStore, [fee |-> fee])

\* sendOperation is entered: its getBlockHead call is now pending.
EnterSendOperation(f, operations) ==
    [f EXCEPT !.pc = "s_head", !.operations = operations]

sendIdentityActivationOperation(p, keyStore, activationCode) ==
    /\ frame[p].pc = "idle"
    /\ Set(p, EnterSendOperation(
                [IdleFrame EXCEPT !.fn = "sendIdentityActivationOperation",
                                  !.keyStore = keyStore,
                                  !.args = [activationCode |-> activationCode]],
                <<activation(keyStore, activationCode)>>))
    /\ UNCHANGED <<chain, mempool, walletVars>>

\* sendOperation called directly with a list of operations.
sendOperation(p, operations, keyStore) ==
    /\ frame[p].pc = "idle"
    /\ Set(p, EnterSendOperation(
                [IdleFrame EXCEPT !.fn = "sendOperation", !.keyStore = keyStore],
                operations))
    /\ UNCHANGED <<chain, mempool, walletVars>>

\* ---- the wrappers' awaits
WrapperHeadResolved(p) ==
    /\ frame[p].pc = "w_head"
    /\ Set(p, [frame[p] EXCEPT !.pc = "w_account", !.wHead = getBlockHead,
                               !.trace = @ \o <<"w:getBlockHead">>])
    /\ UNCHANGED <<chain, mempool, walletVars>>

WrapperHeadRejected(p) ==
    /\ frame[p].pc = "w_head"
    /\ Throw(p, frame[p], <<"w:getBlockHead">>, RemoteCallFailure("getBlockHead"))
    /\ UNCHANGED <<chain, mempool, walletVars>>

WrapperAccountResolved(p) ==
    /\ frame[p].pc = "w_account"
    /\ LET f == frame[p]
           account == getAccountForBlock(f.wHead.hash, f.keyStore.publicKeyHash)
       IN  Set(p, EnterSendOperation(
                    [f EXCEPT !.account = account,
                              !.trace = @ \o <<"getAccountForBlock">>],
                    WrapperOperations(f.fn, f.keyStore, f.args, account)))
    /\ UNCHANGED <<chain, mempool, walletVars>>

WrapperAccountRejected(p) ==
    /\ frame[p].pc = "w_account"
    /\ Throw(p, frame[p], <<"getAccountForBlock">>, RemoteCallFailure("getAccountForBlock"))
    /\ UNCHANGED <<chain, mempool, walletVars>>

\* ---- sendOperation's awaits
\* Mutant: sendOperation uses the head its wrapper fetched, when there is one.
HeadResolved_wrapperHead(p) ==
    /\ frame[p].pc = "s_head"
    /\ LET f == frame[p]
           blockHead == IF f.fn \in CounterWrappers THEN f.wHead ELSE getBlockHead
       IN  Set(p, [f EXCEPT !.pc = "s_forge", !.blockHead = blockHead,
                            !.forgePayload = ForgePayload(blockHead, f.operations),
                            !.trace = @ \o <<"getBlockHead">>])
    /\ UNCHANGED <<chain, mempool, walletVars>>

HeadResolved(p) ==
    /\ frame[p].pc = "s_head"
    /\ LET f == frame[p]
           blockHead == getBlockHead
       IN  Set(p, [f EXCEPT !.pc = "s_forge", !.blockHead = blockHead,
                            !.forgePayload = ForgePayload(blockHead, f.operations),
                            !.trace = @ \o <<"getBlockHead">>])
    /\ UNCHANGED <<chain, mempool, walletVars>>

HeadRejected(p) ==
    /\ frame[p].pc = "s_head"
    /\ Throw(p, frame[p], <<"getBlockHead">>, RemoteCallFailure("getBlockHead"))
    /\ UNCHANGED <<chain, mempool, walletVars>>

\* Mutant: the apply request is built for the head the node has by then.
ForgeResolved_newerHead(p, hex) ==
    /\ frame[p].pc = "s_forge"
    /\ LET f == [frame[p] EXCEPT !.forgedOperationGroup = hex]
       IN  IF ~base58CheckDecodes(f.keyStore.privateKey, "edsk")
           THEN Throw(p, f, <<"forgeOperation", "signOperationGroup">>, KeyDecodingFailure)
           ELSE LET signedOpGroup == signOperationGroup(hex, f.keyStore)
                IN  Set(p, [f EXCEPT
                        !.pc = "s_apply",
                        !.signedOpGroup = signedOpGroup,
                        !.operationGroupHash = computeOperationHash(signedOpGroup),
                        !.applyPayload = ApplyPayload(getBlockHead, f.operations, signedOpGroup),
                        !.trace = @ \o <<"forgeOperation", "signOperationGroup",
                                         "computeOperationHash">>])
    /\ UNCHANGED <<chain, mempool, walletVars>>

\* Mutant: the key bytes are used whatever prefix the key was encoded under.
ForgeResolved_anyPrefix(p, hex) ==
    /\ frame[p].pc = "s_forge"
    /\ LET f == [frame[p] EXCEPT !.forgedOperationGroup = hex]
           signedOpGroup == signOperationGroup(hex, f.keyStore)
       IN  Set(p, [f EXCEPT
                !.pc = "s_apply",
                !.signedOpGroup = signedOpGroup,
                !.operationGroupHash = computeOperationHash(signedOpGroup),
                !.applyPayload = ApplyPayload(f.blockHead, f.operations, signedOpGroup),
                !.trace = @ \o <<"forgeOperation", "signOperationGroup",
                                 "computeOperationHash">>])
    /\ UNCHANGED <<chain, mempool, walletVars>>

\* forge answers; signing, hashing and the apply request follow at once.
ForgeResolved(p, hex) ==
    /\ frame[p].pc = "s_forge"
    /\ LET f == [frame[p] EXCEPT !.forgedOperationGroup = hex]
       IN  IF ~base58CheckDecodes(f.keyStore.privateKey, "edsk")
           THEN Throw(p, f, <<"forgeOperation", "signOperationGroup">>, KeyDecodingFailure)
           ELSE LET signedOpGroup == signOperationGroup(hex, f.keyStore)
                IN  Set(p, [f EXCEPT
                        !.pc = "s_apply",
                        !.signedOpGroup = signedOpGroup,
                        !.operationGroupHash = computeOperationHash(signedOpGroup),
                        !.applyPayload = ApplyPayload(f.blockHead, f.operations, signedOpGroup),
                        !.trace = @ \o <<"forgeOperation", "signOperationGroup",
                                         "computeOperationHash">>])
    /\ UNCHANGED <<chain, mempool, walletVars>>

\* Mutant: a failed forge is tried again.
ForgeRejected_retry(p) ==
    /\ frame[p].pc = "s_forge"
    /\ Set(p, [frame[p] EXCEPT !.trace = @ \o <<"forgeOperation">>])
    /\ UNCHANGED <<chain, mempool, walletVars>>

ForgeRejected(p) ==
    /\ frame[p].pc = "s_forge"
    /\ Throw(p, frame[p], <<"forgeOperation">>, RemoteCallFailure("forgeOperation"))
    /\ UNCHANGED <<chain, mempool, walletVars>>

\* Mutant: the inject request leaves before the apply result is validated.
ApplyResolved_injectFirst(p, applied) ==
    /\ frame[p].pc = "s_apply"
    /\ LET f == [frame[p] EXCEPT !.appliedOp = applied]
       IN  IF Len(applied) = 0
           THEN Throw(p, f, <<"applyOperation", "checkAppliedOperationResults">>, TypeError)
           ELSE Set(p, [f EXCEPT !.pc = "s_inject",
                                 !.injectPayload = InjectPayload(f.signedOpGroup),
                                 !.trace = @ \o <<"applyOperation">>])
    /\ UNCHANGED <<chain, mempool, walletVars>>

\* apply answers; validation and, if it passes, the inject request follow.
ApplyResolved(p, applied) ==
    /\ frame[p].pc = "s_apply"
    /\ LET f == [frame[p] EXCEPT !.appliedOp = applied]
           thrown == checkAppliedOperationResults(applied)
       IN  IF thrown # NoError
           THEN Throw(p, f, <<"applyOperation", "checkAppliedOperationResults">>, thrown)
           ELSE Set(p, [f EXCEPT
                        !.pc = "s_inject",
                        !.injectPayload = InjectPayload(f.signedOpGroup),
                        !.trace = @ \o <<"applyOperation", "checkAppliedOperationResults">>])
    /\ UNCHANGED <<chain, mempool, walletVars>>

ApplyRejected(p) ==
    /\ frame[p].pc = "s_apply"
    /\ Throw(p, frame[p], <<"applyOperation">>, RemoteCallFailure("applyOperation"))
    /\ UNCHANGED <<chain, mempool, walletVars>>

\* Mutant: the locally computed hash is returned as the group id.
InjectResolved_localHash(p, injectedOperation) ==
    /\ frame[p].pc = "s_inject"
    /\ LET f == frame[p]
       IN  /\ mempool' = mempool \cup {f.injectPayload}
           /\ Set(p, [f EXCEPT
                        !.pc = "done",
                        !.injectedOperation = injectedOperation,
                        !.result = [results |-> f.appliedOp[1],
                                    operationGroupID |-> f.operationGroupHash],
                        !.trace = @ \o <<"injectOperation">>])
    /\ UNCHANGED <<chain, walletVars>>

\* inject answers: the node has taken the payload and names the group.
InjectResolved(p, injectedOperation) ==
    /\ frame[p].pc = "s_inject"
    /\ LET f == frame[p]
       IN  /\ mempool' = mempool \cup {f.injectPayload}
           /\ Set(p, [f EXCEPT
                        !.pc = "done",
                        !.injectedOperation = injectedOperation,
                        !.result = [results |-> f.appliedOp[1],
                                    operationGroupID |-> injectedOperation],
                        !.trace = @ \o <<"injectOperation">>])
    /\ UNCHANGED <<chain, walletVars>>

InjectRejected(p) ==
    /\ frame[p].pc = "s_inject"
    /\ Throw(p, frame[p], <<"injectOperation">>, RemoteCallFailure("injectOperation"))
    /\ UNCHANGED <<chain, mempool, walletVars>>

\* ---- isManagerKeyRevealedForAccount
isManagerKeyRevealedForAccount(p, keyStore) ==
    /\ frame[p].pc = "idle"
    /\ Set(p, [IdleFrame EXCEPT !.pc = "m_head",
                                !.fn = "isManagerKeyRevealedForAccount",
                                !.keyStore = keyStore])
    /\ UNCHANGED <<chain, mempool, walletVars>>

\* getBlockHead answers; the manager key of the account is asked for next.
ManagerHeadResolved(p) ==
    /\ frame[p].pc = "m_head"
    /\ LET f == frame[p]
           blockHead == getBlockHead
       IN  Set(p, [f EXCEPT !.pc = "m_manager", !.blockHead = blockHead,
                            !.managerRequest =
                                [blockHash |-> blockHead.hash,
                                 publicKeyHash |-> f.keyStore.publicKeyHash],
                            !.trace = @ \o <<"m:getBlockHead">>])
    /\ UNCHANGED <<chain, mempool, walletVars>>

ManagerHeadRejected(p) ==
    /\ frame[p].pc = "m_head"
    /\ Throw(p, frame[p], <<"m:getBlockHead">>, RemoteCallFailure("getBlockHead"))
    /\ UNCHANGED <<chain, mempool, walletVars>>

\* Mutant: a key that is present counts as revealed, null or not.
ManagerKeyResolved_present(p, managerKey) ==
    /\ frame[p].pc = "m_manager"
    /\ Set(p, [frame[p] EXCEPT !.pc = "done", !.managerKey = managerKey,
                               !.result = "key" \in DOMAIN managerKey,
                               !.trace = @ \o <<"getAccountManagerForBlock">>])
    /\ UNCHANGED <<chain, mempool, walletVars>>

\* getAccountManagerForBlock answers: managerKey.key != null is returned.
ManagerKeyResolved(p, managerKey) ==
    /\ frame[p].pc = "m_manager"
    /\ Set(p, [frame[p] EXCEPT !.pc = "done", !.managerKey = managerKey,
                               !.result = (Prop(managerKey, "key") # Null),
                               !.trace = @ \o <<"getAccountManagerForBlock">>])
    /\ UNCHANGED <<chain, mempool, walletVars>>

ManagerKeyRejected(p) ==
    /\ frame[p].pc = "m_manager"
    /\ Throw(p, frame[p], <<"getAccountManagerForBlock">>,
             RemoteCallFailure("getAccountManagerForBlock"))
    /\ UNCHANGED <<chain, mempool, walletVars>>

\* The caller has its answer; it may call again.
Return(p) ==
    /\ frame[p].pc \in {"done", "failed"}
    /\ Set(p, IdleFrame)
    /\ UNCHANGED <<chain, mempool, walletVars>>

\* The chain grows by a block; the account's counter may have moved with it.
AdvanceHead(bump) ==
    /\ Len(chain) <= MaxHead
    /\ chain' = Append(chain, NewBlock(Len(chain), chain[Len(chain)].counter + bump))
    /\ UNCHANGED <<mempool, frame, walletVars>>

\* ---- inputs
Amounts == {7, 1000}
Fees == {100}
Destinations == {"tz1Receiver"}
Delegates == {"tz1Baker"}
OriginationFlags == {<<TRUE, FALSE>>, <<FALSE, TRUE>>}
ActivationCodes == {"secret0"}
DirectOperations ==
    {<<activation(GoodKeyStore, "secret0"), activation(GoodKeyStore, "secret1")>>}

Entry(p, keyStores, amounts) ==
    \/ \E k \in keyStores, to \in Destinations, a \in amounts, fee \in Fees :
          sendTransactionOperation(p, k, to, a, fee)
    \/ \E k \in keyStores, d \in Delegates, fee \in Fees :
          sendDelegationOperation(p, k, d, fee)
    \/ \E k \in keyStores, a \in amounts, d \in Delegates, fl \in OriginationFlags,
          fee \in Fees :
          sendOriginationOperation(p, k, a, d, fl[1], fl[2], fee)
    \/ \E k \in keyStores, fee \in Fees : sendKeyRevealOperation(p, k, fee)
    \/ \E k \in keyStores, code \in ActivationCodes :
          sendIdentityActivationOperation(p, k, code)
    \/ \E k \in keyStores, ops \in DirectOperations : sendOperation(p, ops, k)

Step(p, hexes, applieds, ids) ==
    \/ WrapperHeadResolved(p)
    \/ WrapperHeadRejected(p)
    \/ WrapperAccountResolved(p)
    \/ WrapperAccountRejected(p)
    \/ HeadResolved(p)
    \/ HeadRejected(p)
    \/ \E hex \in hexes : ForgeResolved(p, hex)
    \/ ForgeRejected(p)
    \/ \E applied \in applieds : ApplyResolved(p, applied)
    \/ ApplyRejected(p)
    \/ \E id \in ids : InjectResolved(p, id)
    \/ InjectRejected(p)
    \/ Return(p)

ManagerStep(p) ==
    \/ \E k \in KeyStores : isManagerKeyRevealedForAccount(p, k)
    \/ ManagerHeadResolved(p)
    \/ ManagerHeadRejected(p)
    \/ \E managerKey \in ManagerKeys : ManagerKeyResolved(p, managerKey)
    \/ ManagerKeyRejected(p)

\* ------------------------------------------------------------ TezosWallet
NoFile == << >>

Passphrases == {"correct horse", "battery staple"}

\* Salts generateSaltForPwHash may return.
Salts == {<<5>>, <<6>>}

\* Identity lists handed to saveWallet.
IdentityLists ==
    {<<GoodKeyStore>>, <<GoodKeyStore, BadKeyStore>>, <<BadKeyStore, GoodKeyStore>>}

\* JSON.stringify of a KeyStore[]: each identity as its members in order.
StringifyKeys(identities) ==
    [i \in 1..Len(identities) |->
        <<"publicKey", identities[i].publicKey,
          "privateKey", identities[i].privateKey,
          "publicKeyHash", identities[i].publicKeyHash>>]

\* JSON.parse of such a text.
ParseKeys(text) ==
    [i \in 1..Len(text) |->
        [publicKey     |-> text[i][2],
         privateKey    |-> text[i][4],
         publicKeyHash |-> text[i][6]]]

\* JSON.stringify of an EncryptedWalletVersionOne.
StringifyWallet(w) ==
    <<"version", w.version, "salt", w.salt, "ciphertext", w.ciphertext, "kdf", w.kdf>>

\* JSON.parse of the wallet file.
ParseWallet(text) ==
    [version |-> text[2], salt |-> text[4], ciphertext |-> text[6], kdf |-> text[8]]

\* CryptoUtils.encryptMessage: sealed under the key derived from (passphrase,
\* salt), with an authentication tag that binds the message.
encryptMessage(message, passphrase, salt) ==
    [sealedFor |-> <<passphrase, salt>>, message |-> message, mac |-> message]

\* CryptoUtils.decryptMessage opens only under the same passphrase and salt,
\* and only a ciphertext whose tag still matches.
decryptOpens(nonce_and_ciphertext, passphrase, salt) ==
    /\ nonce_and_ciphertext.sealedFor = <<passphrase, salt>>
    /\ nonce_and_ciphertext.mac = nonce_and_ciphertext.message
decryptMessage(nonce_and_ciphertext, passphrase, salt) == nonce_and_ciphertext.message

\* Mutant: only the first identity is serialized.
SerializedKeys_first(wallet) ==
    StringifyKeys(IF Len(wallet.identities) = 0 THEN wallet.identities
                  ELSE <<wallet.identities[1]>>)

\* saveWallet: the text that is encrypted.
SerializedKeys(wallet) == StringifyKeys(wallet.identities)

\* saveWallet: the record written to the file.
EncryptedWallet(wallet, passphrase, salt) ==
    LET keys == SerializedKeys(wallet)
        encryptedKeys == encryptMessage(keys, passphrase, salt)
    IN  [version    |-> "1",
         salt       |-> base58CheckEncode(salt, ""),
         ciphertext |-> base58CheckEncode(encryptedKeys, ""),
         kdf        |-> "Argon2"]

DecryptionFailure == [type |-> "DecryptionFailure", from |-> "decryptMessage"]
WriteFailure == [type |-> "WriteFailure", from |-> "writeFile"]
ReadFailure == [type |-> "ReadFailure", from |-> "readFile"]

IdleWallet ==
    [pc |-> "idle", fn |-> Null, passphrase |-> Null, wallet |-> [identities |-> << >>],
     encryptedWallet |-> Null, result |-> [identities |-> << >>], error |-> Null,
     trace |-> << >>]

\* saveWallet up to its await of writeFile.
EnterSave(fn, wallet, passphrase, salt) ==
    [IdleWallet EXCEPT !.pc = "write", !.fn = fn, !.passphrase = passphrase,
                       !.wallet = wallet,
                       !.encryptedWallet = EncryptedWallet(wallet, passphrase, salt)]

saveWallet(wallet, passphrase, salt) ==
    /\ wframe.pc = "idle"
    /\ wframe' = EnterSave("saveWallet", wallet, passphrase, salt)
    /\ UNCHANGED <<file, wlog, pipelineVars>>

createWallet(password, salt) ==
    /\ wframe.pc = "idle"
    /\ wframe' = EnterSave("createWallet", [identities |-> << >>], password, salt)
    /\ UNCHANGED <<file, wlog, pipelineVars>>

loadWallet(passphrase) ==
    /\ wframe.pc = "idle"
    /\ wframe' = [IdleWallet EXCEPT !.pc = "read", !.fn = "loadWallet",
                                    !.passphrase = passphrase]
    /\ UNCHANGED <<file, wlog, pipelineVars>>

\* Mutant: a file that exists is left as it is.
WriteResolved_keepExisting ==
    /\ wframe.pc = "write"
    /\ file' = IF file = NoFile THEN StringifyWallet(wframe.encryptedWallet) ELSE file
    /\ wframe' = [wframe EXCEPT !.pc = "read", !.trace = @ \o <<"writeFile">>]
    /\ UNCHANGED <<wlog, pipelineVars>>

\* writeFile has written; saveWallet goes on to loadWallet.
WriteResolved ==
    /\ wframe.pc = "write"
    /\ file' = StringifyWallet(wframe.encryptedWallet)
    /\ wframe' = [wframe EXCEPT !.pc = "read", !.trace = @ \o <<"writeFile">>]
    /\ UNCHANGED <<wlog, pipelineVars>>

WriteRejected ==
    /\ wframe.pc = "write"
    /\ wframe' = [wframe EXCEPT !.pc = "failed", !.error = WriteFailure,
                                !.trace = @ \o <<"writeFile">>]
    /\ UNCHANGED <<file, wlog, pipelineVars>>

\* loadWallet after its readFile: what it returns, given that decryption opens.
LoadedWallet(data, passphrase) ==
    LET encryptedWallet == ParseWallet(data)
        encryptedKeys == base58CheckDecode(encryptedWallet.ciphertext, "")
        salt == base58CheckDecode(encryptedWallet.salt, "")
        keys == ParseKeys(decryptMessage(encryptedKeys, passphrase, salt))
    IN  [identities |-> keys]

LoadOpens(data, passphrase) ==
    LET encryptedWallet == ParseWallet(data)
    IN  decryptOpens(base58CheckDecode(encryptedWallet.ciphertext, ""), passphrase,
                     base58CheckDecode(encryptedWallet.salt, ""))

\* Mutant: whatever decryption yields is parsed and returned.
ReadResolved_unauthenticated ==
    /\ wframe.pc = "read"
    /\ file # NoFile
    /\ wframe' = [wframe EXCEPT
            !.pc = "done",
            !.result = IF wframe.fn = "createWallet" THEN wframe.wallet
                       ELSE LoadedWallet(file, wframe.passphrase),
            !.trace = @ \o <<"readFile">>]
    /\ UNCHANGED <<file, wlog, pipelineVars>>

\* Mutant: saveWallet returns the wallet it was given once the file is read.
ReadResolved_inMemory ==
    /\ wframe.pc = "read"
    /\ file # NoFile
    /\ IF wframe.fn = "loadWallet" /\ ~LoadOpens(file, wframe.passphrase)
       THEN wframe' = [wframe EXCEPT !.pc = "failed", !.error = DecryptionFailure,
                                     !.trace = @ \o <<"readFile">>]
       ELSE wframe' = [wframe EXCEPT
                !.pc = "done",
                !.result = IF wframe.fn = "loadWallet"
                           THEN LoadedWallet(file, wframe.passphrase)
                           ELSE wframe.wallet,
                !.trace = @ \o <<"readFile">>]
    /\ UNCHANGED <<file, wlog, pipelineVars>>

\* readFile has read the file; the rest of loadWallet and of its callers runs.
ReadResolved ==
    /\ wframe.pc = "read"
    /\ file # NoFile
    /\ IF ~LoadOpens(file, wframe.passphrase)
       THEN wframe' = [wframe EXCEPT !.pc = "failed", !.error = DecryptionFailure,
                                     !.trace = @ \o <<"readFile">>]
       ELSE wframe' = [wframe EXCEPT
                !.pc = "done",
                !.result = IF wframe.fn = "createWallet" THEN wframe.wallet
                           ELSE LoadedWallet(file, wframe.passphrase),
                !.trace = @ \o <<"readFile">>]
    /\ UNCHANGED <<file, wlog, pipelineVars>>

\* There is no file to read.
ReadRejected ==
    /\ wframe.pc = "read"
    /\ file = NoFile
    /\ wframe' = [wframe EXCEPT !.pc = "failed", !.error = ReadFailure,
                                !.trace = @ \o <<"readFile">>]
    /\ UNCHANGED <<file, wlog, pipelineVars>>

\* What the log keeps of a completed call.
Completed(w) ==
    [fn |-> w.fn, passphrase |-> w.passphrase, identities |-> w.wallet.identities,
     ok |-> w.pc = "done"]

\* The caller has its answer; it may call again.
WalletReturn ==
    /\ wframe.pc \in {"done", "failed"}
    /\ wlog' = IF Len(wlog) < 2 THEN Append(wlog, Completed(wframe))
               ELSE <<wlog[2], Completed(wframe)>>
    /\ wframe' = IdleWallet
    /\ UNCHANGED <<file, pipelineVars>>

\* What is left of a ciphertext text after damage: its last entry is lost, or
\* it is replaced by another text.
Damaged(message) ==
    IF Len(message) > 0 THEN SubSeq(message, 1, Len(message) - 1)
    ELSE StringifyKeys(<<BadKeyStore>>)

\* Salts a damaged file may hold.
OtherSalts == {<<9>>}

\* The file is damaged on disk: in its ciphertext or in its salt.
Corrupt(field) ==
    /\ file # NoFile
    /\ LET w == ParseWallet(file)
           ct == base58CheckDecode(w.ciphertext, "")
       IN  /\ ct.mac = ct.message
           /\ base58CheckDecode(w.salt, "") \in Salts
           /\ \/ /\ field = "ciphertext"
                 /\ file' = StringifyWallet([w EXCEPT !.ciphertext =
                        base58CheckEncode([ct EXCEPT !.message = Damaged(ct.message)], "")])
              \/ /\ field = "salt"
                 /\ \E s \in OtherSalts :
                       file' = StringifyWallet([w EXCEPT !.salt = base58CheckEncode(s, "")])
    /\ UNCHANGED <<wframe, wlog, pipelineVars>>

Init ==
    /\ \E c \in InitCounters : chain = <<NewBlock(0, c)>>
    /\ mempool = {}
    /\ frame = [p \in Procs |-> IdleFrame]
    /\ file = NoFile
    /\ wframe = IdleWallet
    /\ wlog = << >>

\* One caller at a time, every answer the node may give.
Next ==
    \/ Entry(1, KeyStores, Amounts)
    \/ Step(1, ForgedHex, AppliedResults, InjectedIds)
    \/ ManagerStep(1)
    \/ \E bump \in {0, 1} : AdvanceHead(bump)

vars == <<chain, mempool, frame, file, wframe, wlog>>

Spec == Init /\ [][Next]_vars

\* The wallet file under one caller's calls, one after the other.
NextWallet ==
    \/ \E pw \in Passphrases, salt \in Salts : createWallet(pw, salt)
    \/ \E l \in IdentityLists, pw \in Passphrases, salt \in Salts :
          saveWallet([identities |-> l], pw, salt)
    \/ \E pw \in Passphrases : loadWallet(pw)
    \/ WriteResolved
    \/ WriteRejected
    \/ ReadResolved
    \/ ReadRejected
    \/ WalletReturn

SpecWallet == Init /\ [][NextWallet]_vars

\* The wallet file when the disk may damage it between the calls.
NextTamper ==
    \/ \E l \in IdentityLists, pw \in Passphrases, salt \in Salts :
          saveWallet([identities |-> l], pw, salt)
    \/ \E pw \in Passphrases : loadWallet(pw)
    \/ WriteResolved
    \/ WriteRejected
    \/ ReadResolved
    \/ ReadRejected
    \/ WalletReturn
    \/ \E field \in {"ciphertext", "salt"} : Corrupt(field)

SpecTamper == Init /\ [][NextTamper]_vars

\* Answers of the node in the two-caller specification.
ConcApplied ==
    {<<[kind |-> Null, id |-> Null, contents |-> <<[kind |-> "transaction"]>>]>>,
     <<[kind |-> "temporary", id |-> "proto.counter_in_the_past", contents |-> << >>]>>}

\* Two callers submitting for the same identity, interleaved at every await.
NextConc ==
    \/ \E p \in Procs : sendTransactionOperation(p, GoodKeyStore, "tz1Receiver", 1000, 100)
    \/ \E p \in Procs :
          Step(p, {<<"a", "b">>}, ConcApplied, {base58CheckEncode(<<1>>, "op")})
    \/ \E bump \in {0, 1} : AdvanceHead(bump)

SpecConc == Init /\ [][NextConc]_vars

\* ------------------------------------------------------------- reading a call
Has(trace, call) == \E i \in 1..Len(trace) : trace[i] = call

Count(trace, call) == Cardinality({i \in 1..Len(trace) : trace[i] = call})

IsPrefix(s, t) == Len(s) <= Len(t) /\ \A i \in 1..Len(s) : s[i] = t[i]

InWrapper(f) == f.pc \in {"w_head", "w_account"}

\* The part of a trace that sendOperation made.
SendTrace(trace) ==
    LET Own(c) == c \notin {"w:getBlockHead", "getAccountForBlock",
                            "m:getBlockHead", "getAccountManagerForBlock"}
    IN  SelectSeq(trace, Own)

\* The remote calls of a trace.
RemoteCalls(trace) ==
    LET Remote(c) == c \in {"w:getBlockHead", "getAccountForBlock", "getBlockHead",
                            "forgeOperation", "applyOperation", "injectOperation",
                            "m:getBlockHead", "getAccountManagerForBlock"}
    IN  SelectSeq(trace, Remote)

SendOrder ==
    <<"getBlockHead", "forgeOperation", "signOperationGroup", "computeOperationHash",
      "applyOperation", "checkAppliedOperationResults", "injectOperation">>

\* The apply result of a call names a kind the pipeline does not support.
UnsupportedOutcome(f) ==
    /\ Has(f.trace, "checkAppliedOperationResults")
    /\ Len(f.appliedOp) > 0
    /\ LET first == f.appliedOp[1]
       IN  \/ first.kind # Null /\ first.kind \notin validAppliedKinds
           \/ /\ "contents" \in DOMAIN first
              /\ \E i \in 1..Len(first.contents) :
                    Prop(first.contents[i], "kind") \notin validAppliedKinds

\* C1: a call whose first apply result has an unsupported top-level kind, or
\* an unsupported kind in any entry of its contents, fails, and inject is never
\* invoked for it.
C1_RejectedNeverInjected ==
    \A p \in Procs :
        UnsupportedOutcome(frame[p]) =>
            /\ frame[p].pc = "failed"
            /\ Count(frame[p].trace, "injectOperation") = 0
            /\ frame[p].trace[Len(frame[p].trace)] = "checkAppliedOperationResults"

\* A call rejected for a content kind alone, under a supported envelope kind.
C1_Witness ==
    \E p \in Procs :
        /\ UnsupportedOutcome(frame[p])
        /\ frame[p].pc = "failed"
        /\ frame[p].appliedOp[1].kind = "transaction"
        /\ frame[p].error.type = "Error"

\* C2: a remote call that fails ends the call with that failure, nothing is
\* attempted after it, and no remote call is made twice in one call.
C2_FailureAborts ==
    \A p \in Procs :
        LET f == frame[p]
            t == f.trace
            own == SendTrace(t)
        IN  /\ \A c \in {"w:getBlockHead", "getAccountForBlock", "getBlockHead",
                         "forgeOperation", "applyOperation", "injectOperation"} :
                    Count(t, c) <= 1
            /\ (f.pc = "failed" /\ f.error.type = "RemoteCallFailure") =>
                  /\ Len(own) > 0 =>
                        /\ own[Len(own)] = f.error.from
                        /\ t[Len(t)] = f.error.from
                  /\ f.error.from = "getBlockHead" /\ Len(own) > 0 =>
                        /\ ~Has(t, "forgeOperation")
                        /\ ~Has(t, "applyOperation")
                        /\ ~Has(t, "injectOperation")
                  /\ f.error.from = "forgeOperation" =>
                        /\ ~Has(t, "signOperationGroup")
                        /\ ~Has(t, "applyOperation")
                        /\ ~Has(t, "injectOperation")
                  /\ f.error.from = "applyOperation" =>
                        /\ ~Has(t, "checkAppliedOperationResults")
                        /\ ~Has(t, "injectOperation")

\* A call that failed at forge, after its head fetch succeeded.
C2_Witness ==
    \E p \in Procs :
        /\ frame[p].pc = "failed"
        /\ frame[p].error = RemoteCallFailure("forgeOperation")
        /\ SendTrace(frame[p].trace) = <<"getBlockHead", "forgeOperation">>

\* The steps of a call up to and including validation have all succeeded.
ReadyToInject(f) ==
    /\ IsPrefix(SubSeq(SendOrder, 1, 6), SendTrace(f.trace))
    /\ base58CheckDecodes(f.keyStore.privateKey, "edsk")
    /\ f.signedOpGroup.signature.prefix = "edsig"
    /\ checkAppliedOperationResults(f.appliedOp) = NoError

\* C3 (order): the steps sendOperation has made are an initial part of
\* getBlockHead, forge, sign, hash, apply, validate, inject; inject is made
\* only by a call whose earlier steps have all succeeded.
C3_Order ==
    \A p \in Procs :
        /\ IsPrefix(SendTrace(frame[p].trace), SendOrder)
        /\ Has(frame[p].trace, "injectOperation") => ReadyToInject(frame[p])
        /\ frame[p].pc = "s_inject" => ReadyToInject(frame[p])

\* C3 (effect): a step of a call leaves the node's state alone unless it is
\* the answer to that call's inject, which adds the call's payload.
C3_OnlyInjectMutates ==
    \A p \in Procs :
        (frame'[p] # frame[p] /\ <<chain, mempool>>' # <<chain, mempool>>) =>
            /\ frame[p].pc = "s_inject"
            /\ frame'[p].pc = "done"
            /\ ReadyToInject(frame[p])
            /\ chain' = chain
            /\ mempool' = mempool \cup {frame[p].injectPayload}

\* C3: the order of the steps and the sole effect on chain state, at every step.
C3_Atomic == [][C3_Order /\ C3_OnlyInjectMutates]_vars

\* A call that stopped after signing, with nothing broadcast.
C3_Witness ==
    \E p \in Procs :
        /\ frame[p].pc = "failed"
        /\ Has(frame[p].trace, "computeOperationHash")
        /\ frame[p].error = RemoteCallFailure("applyOperation")
        /\ mempool = {}

\* 0x03
WatermarkByte == 3

\* C4: the payload handed to inject is the hex of the signed bytes: the forged
\* bytes, without watermark, then the signature over hash32(0x03 ++ forged);
\* forge is called once, before signing.
C4_InjectedIsSigned ==
    \A p \in Procs :
        Has(frame[p].trace, "injectOperation") =>
            LET f == frame[p]
                forgedBytes == from_hex(f.forgedOperationGroup)
                sig == crypto_sign_detached(
                           crypto_generichash(32, <<WatermarkByte>> \o forgedBytes),
                           f.keyStore.privateKey.payload)
            IN  /\ f.signedOpGroup.bytes = forgedBytes \o sig
                /\ f.injectPayload = to_hex(f.signedOpGroup.bytes)
                /\ from_hex(f.injectPayload) = forgedBytes \o sig
                /\ SubSeq(f.injectPayload, 1, Len(f.forgedOperationGroup))
                      = f.forgedOperationGroup
                /\ Count(f.trace, "forgeOperation") = 1
                /\ \A i, j \in 1..Len(f.trace) :
                      (f.trace[i] = "forgeOperation" /\ f.trace[j] = "signOperationGroup")
                          => i < j

\* A call that injected forged bytes which themselves begin with 03.
C4_Witness ==
    \E p \in Procs :
        /\ frame[p].pc = "done"
        /\ Has(frame[p].trace, "injectOperation")
        /\ frame[p].forgedOperationGroup = <<"0", "3", "c", "d">>
        /\ frame[p].injectPayload \in mempool

\* Decimal strings of the numbers the inputs use, written out.
Decimal(n) ==
    CASE n = 7 -> "7" [] n = 41 -> "41" [] n = 42 -> "42"
      [] n = 43 -> "43" [] n = 44 -> "44" [] n = 45 -> "45" [] n = 100 -> "100"
      [] n = 1000 -> "1000"

\* The call has entered sendOperation, so its operations list exists.
InSend(f) ==
    \/ f.pc \in {"s_head", "s_forge", "s_apply", "s_inject", "done"}
    \/ f.pc = "failed" /\ Len(SendTrace(f.trace)) > 0

HasBuilt(f) == f.fn \in Wrappers /\ InSend(f)

\* C5: the counter of the content a counter-bearing wrapper built is the
\* decimal string of one more than the counter it read itself, once, from the
\* account as of the block head it fetched.
C5_CounterFresh ==
    \A p \in Procs :
        LET f == frame[p]
        IN  (f.fn \in CounterWrappers /\ HasBuilt(f)) =>
                /\ f.operations[1].counter = Decimal(f.account.counter + 1)
                /\ f.account.counter = chain[f.wHead.hash + 1].counter
                /\ Count(f.trace, "getAccountForBlock") = 1
                /\ IsPrefix(<<"w:getBlockHead", "getAccountForBlock">>, f.trace)

\* A reveal built from the counter 41, after the chain had moved on.
C5_Witness ==
    \E p \in Procs :
        /\ frame[p].fn = "sendKeyRevealOperation"
        /\ frame[p].pc = "done"
        /\ frame[p].account.counter = 41
        /\ frame[p].operations[1].counter = "42"
        /\ chain[Len(chain)].counter = 42

FieldsOf(kind) ==
    CASE kind = "transaction" ->
            {"kind", "source", "destination", "amount", "fee", "counter",
             "gas_limit", "storage_limit", "parameters"}
      [] kind = "delegation" ->
            {"kind", "source", "delegate", "fee", "counter", "gas_limit", "storage_limit"}
      [] kind = "origination" ->
            {"kind", "source", "managerPubkey", "balance", "spendable", "delegatable",
             "delegate", "fee", "counter", "gas_limit", "storage_limit"}
      [] kind = "reveal" ->
            {"kind", "source", "public_key", "fee", "counter", "gas_limit", "storage_limit"}
      [] kind = "activate_account" -> {"kind", "pkh", "secret"}

KindOf(fn) ==
    CASE fn = "sendTransactionOperation" -> "transaction"
      [] fn = "sendDelegationOperation" -> "delegation"
      [] fn = "sendOriginationOperation" -> "origination"
      [] fn = "sendKeyRevealOperation" -> "reveal"
      [] fn = "sendIdentityActivationOperation" -> "activate_account"

\* C7: a wrapper hands sendOperation exactly one content, with the field set
\* of its kind, gas_limit "120", storage_limit "0", the identity's public key
\* hash as source, and amount, fee and balance as decimal strings.
C7_ContentShape ==
    \A p \in Procs :
        LET f == frame[p]
        IN  HasBuilt(f) =>
              /\ Len(f.operations) = 1
              /\ LET op == f.operations[1]
                     a == f.args
                 IN  /\ op.kind = KindOf(f.fn)
                     /\ DOMAIN op = FieldsOf(op.kind)
                     /\ op.kind # "activate_account" =>
                           /\ op.gas_limit = "120"
                           /\ op.storage_limit = "0"
                           /\ op.source = f.keyStore.publicKeyHash
                           /\ op.fee = Decimal(a.fee)
                           /\ op.counter = Decimal(f.account.counter + 1)
                     /\ op.kind = "transaction" =>
                           /\ op.amount = Decimal(a.amount)
                           /\ op.destination = a.to
                           /\ op.parameters = [prim |-> "Unit", args |-> << >>]
                     /\ op.kind = "delegation" => op.delegate = a.delegate
                     /\ op.kind = "origination" =>
                           /\ op.balance = Decimal(a.amount)
                           /\ op.managerPubkey = f.keyStore.publicKeyHash
                           /\ op.spendable = a.spendable
                           /\ op.delegatable = a.delegatable
                           /\ op.delegate = a.delegate
                     /\ op.kind = "reveal" => op.public_key = f.keyStore.publicKey
                     /\ op.kind = "activate_account" =>
                           /\ op.pkh = f.keyStore.publicKeyHash
                           /\ op.secret = a.activationCode

\* The transaction of the example: amount 1000, fee 100, remote counter 41.
C7_Witness ==
    \E p \in Procs :
        /\ frame[p].pc = "done"
        /\ frame[p].fn = "sendTransactionOperation"
        /\ frame[p].operations =
              <<[kind |-> "transaction", source |-> "tz1Sender",
                 destination |-> "tz1Receiver", amount |-> "1000", fee |-> "100",
                 counter |-> "42", gas_limit |-> "120", storage_limit |-> "0",
                 parameters |-> [prim |-> "Unit", args |-> << >>]]>>

\* C8: an activation makes no account read and no head fetch of its own, its
\* remote calls on success are getBlockHead, forge, apply, inject, and its
\* content has no counter; the other four wrappers fetch the head and then the
\* account before sendOperation starts.
C8_ActivationSkipsAccount ==
    \A p \in Procs :
        LET f == frame[p]
        IN  /\ f.fn = "sendIdentityActivationOperation" =>
                  /\ ~Has(f.trace, "getAccountForBlock")
                  /\ ~Has(f.trace, "w:getBlockHead")
                  /\ "counter" \notin DOMAIN f.operations[1]
                  /\ f.pc = "done" =>
                        RemoteCalls(f.trace) = <<"getBlockHead", "forgeOperation",
                                                 "applyOperation", "injectOperation">>
            /\ (f.fn \in CounterWrappers /\ InSend(f)) =>
                  /\ IsPrefix(<<"w:getBlockHead", "getAccountForBlock">>, f.trace)
                  /\ f.pc = "done" =>
                        RemoteCalls(f.trace) =
                            <<"w:getBlockHead", "getAccountForBlock", "getBlockHead",
                              "forgeOperation", "applyOperation", "injectOperation">>

\* An activation that went all the way to injection.
C8_Witness ==
    \E p \in Procs :
        /\ frame[p].fn = "sendIdentityActivationOperation"
        /\ frame[p].pc = "done"
        /\ frame[p].injectPayload \in mempool

\* C9: a call that succeeds returns the first element of the array its apply
\* returned and the identifier its inject returned, and only after its inject
\* was called and succeeded.
C9_ResultValue ==
    \A p \in Procs :
        LET f == frame[p]
        IN  (f.pc = "done" /\ f.fn # "isManagerKeyRevealedForAccount") =>
              /\ f.result = [results |-> f.appliedOp[1],
                             operationGroupID |-> f.injectedOperation]
              /\ f.injectedOperation \in InjectedIds
              /\ f.trace[Len(f.trace)] = "injectOperation"
              /\ Count(f.trace, "injectOperation") = 1
              /\ f.injectPayload \in mempool

\* A success whose apply returned two elements and whose id is the node's.
C9_Witness ==
    \E p \in Procs :
        /\ frame[p].pc = "done"
        /\ frame[p].fn # "isManagerKeyRevealedForAccount"
        /\ Len(frame[p].appliedOp) = 2
        /\ frame[p].result.operationGroupID = base58CheckEncode(<<2>>, "op")
        /\ frame[p].result.operationGroupID # frame[p].operationGroupHash

\* Both callers hold content built for the same identity from the same counter.
Colliding(f, g) ==
    /\ f.fn \in CounterWrappers /\ g.fn \in CounterWrappers
    /\ InSend(f) /\ InSend(g)
    /\ f.keyStore = g.keyStore
    /\ f.account.counter = g.account.counter

\* C6: submissions for one identity are not serialized: a caller can always
\* start a submission and take each of its steps whatever the other caller is
\* doing, and two calls that read the same counter value build the same
\* counter.
C6_NotSerialized ==
    \A p \in Procs :
        /\ frame[p].pc = "idle" =>
              ENABLED sendTransactionOperation(p, GoodKeyStore, "tz1Receiver", 1000, 100)
        /\ frame[p].pc = "w_head" => ENABLED WrapperHeadResolved(p)
        /\ frame[p].pc = "w_account" => ENABLED WrapperAccountResolved(p)
        /\ frame[p].pc = "s_head" => ENABLED HeadResolved(p)
        /\ frame[p].pc = "s_apply" => \A a \in ConcApplied : ENABLED ApplyResolved(p, a)
        /\ frame[p].pc = "s_inject" =>
              ENABLED InjectResolved(p, base58CheckEncode(<<1>>, "op"))
        /\ \A q \in Procs \ {p} :
              Colliding(frame[p], frame[q]) =>
                  /\ frame[p].operations[1].counter = frame[q].operations[1].counter
                  /\ frame[p].operations[1].counter = Decimal(frame[p].account.counter + 1)

\* Both callers have read the counter 41 and built counter 42, both have
\* passed apply, neither has injected yet, and both can.
C6_Witness ==
    /\ frame[1].pc = "s_inject" /\ frame[2].pc = "s_inject"
    /\ Colliding(frame[1], frame[2])
    /\ frame[1].fn = frame[2].fn
    /\ frame[1].account.counter = 41
    /\ frame[1].operations = frame[2].operations
    /\ frame[1].operations[1].counter = "42"
    /\ mempool = {}
    /\ ENABLED InjectResolved(1, base58CheckEncode(<<1>>, "op"))
    /\ ENABLED InjectResolved(2, base58CheckEncode(<<1>>, "op"))

\* C10: a loadWallet that follows createWallet(p) and saveWallet(L, p) with the
\* same password returns L, in order and field by field; a loadWallet that
\* follows createWallet(p) alone returns no identities, which is also what
\* createWallet returns.
C10_RoundTrip ==
    /\ (wframe.fn = "createWallet" /\ wframe.pc = "done") =>
          wframe.result = [identities |-> << >>]
    /\ (wframe.fn = "loadWallet" /\ wframe.pc = "done" /\ Len(wlog) = 2) =>
          /\ (/\ wlog[1].fn = "createWallet" /\ wlog[1].ok
              /\ wlog[2].fn = "saveWallet" /\ wlog[2].ok
              /\ wlog[1].passphrase = wframe.passphrase
              /\ wlog[2].passphrase = wframe.passphrase) =>
                wframe.result = [identities |-> wlog[2].identities]
          /\ (/\ wlog[2].fn = "createWallet" /\ wlog[2].ok
              /\ wlog[2].passphrase = wframe.passphrase) =>
                wframe.result = [identities |-> << >>]
    /\ (/\ wframe.fn = "loadWallet" /\ wframe.pc = "done" /\ Len(wlog) = 1
        /\ wlog[1].fn = "createWallet" /\ wlog[1].ok
        /\ wlog[1].passphrase = wframe.passphrase) =>
          wframe.result = [identities |-> << >>]

\* create, save of two identities, load, all under one password.
C10_Witness ==
    /\ wframe.fn = "loadWallet" /\ wframe.pc = "done"
    /\ Len(wlog) = 2
    /\ wlog[1].fn = "createWallet" /\ wlog[1].ok
    /\ wlog[2].fn = "saveWallet" /\ wlog[2].ok
    /\ wlog[1].passphrase = wframe.passphrase
    /\ wlog[2].passphrase = wframe.passphrase
    /\ wlog[2].identities = <<BadKeyStore, GoodKeyStore>>
    /\ wframe.result.identities = <<BadKeyStore, GoodKeyStore>>

\* The file on disk is not what a saveWallet wrote.
Tampered(data) ==
    LET w == ParseWallet(data)
        ct == base58CheckDecode(w.ciphertext, "")
    IN  \/ ct.mac # ct.message
        \/ base58CheckDecode(w.salt, "") # ct.sealedFor[2]

\* The call completed last was a save that wrote the file and read it back.
LastSaved ==
    /\ Len(wlog) > 0
    /\ wlog[Len(wlog)].fn \in {"saveWallet", "createWallet"}
    /\ wlog[Len(wlog)].ok

\* C11: a loadWallet with another password than that of the save which wrote
\* the file, or of a file damaged in its ciphertext or salt, fails with a
\* decryption error and returns no wallet; a loadWallet that returns a wallet
\* read an undamaged file under the password of its save.
C11_LoadStep ==
    (wframe.fn = "loadWallet" /\ wframe.pc = "read" /\ wframe'.pc # "read"
        /\ file # NoFile) =>
        /\ ((LastSaved /\ wlog[Len(wlog)].passphrase # wframe.passphrase)
               \/ Tampered(file)) =>
              /\ wframe'.pc = "failed"
              /\ wframe'.error = DecryptionFailure
              /\ wframe'.result = IdleWallet.result
        /\ wframe'.pc = "failed" => wframe'.result = IdleWallet.result
        /\ wframe'.pc = "done" => ~Tampered(file)
        /\ (wframe'.pc = "done" /\ LastSaved) =>
              /\ wlog[Len(wlog)].passphrase = wframe.passphrase
              /\ wframe'.result = [identities |-> wlog[Len(wlog)].identities]

C11_WrongPasswordFails == [][C11_LoadStep]_vars

\* A load under the right password that failed on a file whose ciphertext
\* had lost its last identity.
C11_Witness ==
    /\ wframe.fn = "loadWallet" /\ wframe.pc = "failed"
    /\ wframe.error = DecryptionFailure
    /\ LastSaved
    /\ wlog[Len(wlog)].passphrase = wframe.passphrase
    /\ Len(wlog[Len(wlog)].identities) = 2
    /\ Len(base58CheckDecode(ParseWallet(file).ciphertext, "").message) = 1

\* A load under the other password of an undamaged file.
C11_WitnessPassword ==
    /\ wframe.fn = "loadWallet" /\ wframe.pc = "failed"
    /\ wframe.error = DecryptionFailure
    /\ LastSaved
    /\ wlog[Len(wlog)].passphrase # wframe.passphrase
    /\ ~Tampered(file)

\* The text saveWallet writes for the identities, password and salt of a call.
WrittenRecord(identities, passphrase, salt) ==
    <<"version", "1",
      "salt", [prefix |-> "", payload |-> salt],
      "ciphertext", [prefix |-> "",
                     payload |-> [sealedFor |-> <<passphrase, salt>>,
                                  message |-> StringifyKeys(identities),
                                  mac |-> StringifyKeys(identities)]],
      "kdf", "Argon2">>

\* C12 (write): the write of a saveWallet puts on disk the record of version
\* "1" and kdf "Argon2" with a salt of this call and the identities encrypted
\* under the password and that salt, and only then is the file read; a write
\* that fails leaves the file alone, surfaces, and no read follows.
C12_WriteStep ==
    (wframe.fn = "saveWallet" /\ wframe.pc = "write" /\ wframe'.pc # "write") =>
        /\ wframe'.pc = "read" =>
              /\ \E salt \in Salts :
                    file' = WrittenRecord(wframe.wallet.identities,
                                          wframe.passphrase, salt)
              /\ wframe'.trace = <<"writeFile">>
        /\ wframe'.pc # "read" =>
              /\ wframe'.pc = "failed"
              /\ wframe'.error = WriteFailure
              /\ wframe'.trace = <<"writeFile">>
              /\ file' = file

\* C12 (read back): what saveWallet returns is what loadWallet makes of the
\* file as it is on disk when it is read, under the password of the call.
C12_ReadStep ==
    (wframe.fn = "saveWallet" /\ wframe.pc = "read" /\ wframe'.pc # "read") =>
        /\ wframe.trace = <<"writeFile">>
        /\ wframe'.trace = <<"writeFile", "readFile">>
        /\ file' = file
        /\ IF Tampered(file)
           THEN wframe'.pc = "failed" /\ wframe'.error = DecryptionFailure
           ELSE /\ wframe'.pc = "done"
                /\ wframe'.result =
                      [identities |->
                          ParseKeys(ParseWallet(file).ciphertext.payload.message)]

\* C12: saveWallet writes the record, then reads the file back and returns
\* what it read.
C12_SaveWritesThenLoads == [][C12_WriteStep /\ C12_ReadStep]_vars

\* A saveWallet that wrote its file and failed reading it back damaged.
C12_Witness ==
    /\ wframe.fn = "saveWallet" /\ wframe.pc = "failed"
    /\ wframe.error = DecryptionFailure
    /\ wframe.trace = <<"writeFile", "readFile">>
    /\ Tampered(file)

IsManagerCall(f) == f.fn = "isManagerKeyRevealedForAccount"

\* C13 (answer): isManagerKeyRevealedForAccount asks for the manager key at
\* the hash of the head it fetched, for the identity's public key hash; it
\* returns FALSE exactly when the record has no key or a null key; its only
\* calls are getBlockHead and getAccountManagerForBlock.
C13_Answer ==
    \A p \in Procs :
        LET f == frame[p]
        IN  IsManagerCall(f) =>
              /\ IsPrefix(f.trace, <<"m:getBlockHead", "getAccountManagerForBlock">>)
              /\ \A c \in {"forgeOperation", "applyOperation", "injectOperation"} :
                    ~Has(f.trace, c)
              /\ Has(f.trace, "getAccountManagerForBlock") =>
                    /\ f.managerRequest.blockHash = f.blockHead.hash
                    /\ f.managerRequest.publicKeyHash = f.keyStore.publicKeyHash
              /\ f.pc = "done" =>
                    /\ f.trace = <<"m:getBlockHead", "getAccountManagerForBlock">>
                    /\ f.result \in BOOLEAN
                    /\ f.result = FALSE <=>
                          \/ "key" \notin DOMAIN f.managerKey
                          \/ f.managerKey.key = Null

\* C13 (head): the head it asks at is the newest block when its getBlockHead
\* answers, and none of its steps changes the node's state.
C13_HeadStep ==
    \A p \in Procs :
        (IsManagerCall(frame[p]) /\ frame'[p] # frame[p]) =>
            /\ chain' = chain
            /\ mempool' = mempool
            /\ (frame[p].pc = "m_head" /\ frame'[p].pc = "m_manager") =>
                  frame'[p].managerRequest.blockHash = Len(chain) - 1

C13_ManagerKeyRevealed == [][C13_Answer /\ C13_HeadStep]_vars

\* The answer FALSE for a record without a key, asked at a block later than
\* the first.
C13_Witness ==
    \E p \in Procs :
        /\ IsManagerCall(frame[p])
        /\ frame[p].pc = "done"
        /\ frame[p].result = FALSE
        /\ "key" \notin DOMAIN frame[p].managerKey
        /\ frame[p].managerRequest.blockHash = 1

\* The kinds the validator lets through.
AllowedKinds ==
    {"activate_account", "reveal", "transaction", "origination", "delegation"}

\* Validation of the call's apply result has run and has not thrown.
PassedValidation(f) ==
    /\ Has(f.trace, "checkAppliedOperationResults")
    /\ ~(f.pc = "failed" /\ f.trace[Len(f.trace)] = "checkAppliedOperationResults")

\* (a) the top-level kind of a result is absent, null or allowed.
EnvelopeOk(first) ==
    \/ "kind" \notin DOMAIN first
    \/ first.kind = Null
    \/ first.kind \in AllowedKinds

\* (b) every entry of the contents of a result has an allowed kind.
ContentsOk(first) ==
    \A i \in 1..Len(first.contents) :
        /\ "kind" \in DOMAIN first.contents[i]
        /\ first.contents[i].kind \in AllowedKinds

\* Validation has run on a first result that has a contents array.
Validated(f) ==
    /\ Has(f.trace, "checkAppliedOperationResults")
    /\ Len(f.appliedOp) > 0
    /\ "contents" \in DOMAIN f.appliedOp[1]

\* C14: the validator lets the first apply result through exactly when its
\* top-level kind is absent, null or allowed and every entry of its contents
\* has an allowed kind; when either fails, it throws an Error.
C14_AcceptsExactly ==
    \A p \in Procs :
        LET f == frame[p]
        IN  Validated(f) =>
              /\ PassedValidation(f) <=>
                    (EnvelopeOk(f.appliedOp[1]) /\ ContentsOk(f.appliedOp[1]))
              /\ ~PassedValidation(f) =>
                    /\ f.error.type = "Error"
                    /\ f.error.from = "checkAppliedOperationResults"
                    /\ ~Has(f.trace, "injectOperation")

\* A result rejected for its top-level kind alone: all its contents are allowed.
C14_Witness ==
    \E p \in Procs :
        /\ Validated(frame[p])
        /\ ~PassedValidation(frame[p])
        /\ ~EnvelopeOk(frame[p].appliedOp[1])
        /\ ContentsOk(frame[p].appliedOp[1])
        /\ Len(frame[p].appliedOp[1].contents) = 3

\* A result rejected for a content entry that has no kind, under an absent
\* top-level kind.
C14_WitnessNoKind ==
    \E p \in Procs :
        /\ Validated(frame[p])
        /\ ~PassedValidation(frame[p])
        /\ frame[p].appliedOp[1].kind = Null
        /\ frame[p].appliedOp[1].contents = <<[metadata |-> "failed"]>>

\* C15: when the first element of the array apply returned passes validation,
\* the call goes on to inject whatever the later elements hold, and what it
\* returns has the first element as results and nothing of the later ones.
C15_OnlyFirstElement ==
    \A p \in Procs :
        LET f == frame[p]
        IN  (Validated(f) /\ EnvelopeOk(f.appliedOp[1]) /\ ContentsOk(f.appliedOp[1])) =>
              /\ PassedValidation(f)
              /\ f.pc \in {"s_inject", "done", "failed"}
              /\ f.pc = "s_inject" => f.injectPayload = to_hex(f.signedOpGroup.bytes)
              /\ f.pc = "failed" => f.error = RemoteCallFailure("injectOperation")
              /\ f.pc = "done" =>
                    /\ f.result.results = f.appliedOp[1]
                    /\ DOMAIN f.result = {"results", "operationGroupID"}
                    /\ \A n \in 2..Len(f.appliedOp) :
                          /\ f.result.results # f.appliedOp[n]
                          /\ f.result.operationGroupID # f.appliedOp[n]

\* A call that succeeded although the second element of its apply result has
\* a kind and a content kind outside the allowed set.
C15_Witness ==
    \E p \in Procs :
        /\ Validated(frame[p])
        /\ frame[p].pc = "done"
        /\ Len(frame[p].appliedOp) = 2
        /\ ~EnvelopeOk(frame[p].appliedOp[2])
        /\ ~ContentsOk(frame[p].appliedOp[2])
        /\ frame[p].injectPayload \in mempool

\* Validation of the call's apply result threw for an unsupported kind.
ValidationFailed(f) ==
    /\ Validated(f)
    /\ f.pc = "failed"
    /\ f.error.type = "Error"
    /\ f.error.from = "checkAppliedOperationResults"

\* The id field of a result or of a content entry, Null when it has none.
IdOf(obj) == IF "id" \in DOMAIN obj THEN obj.id ELSE Null

\* C16: every validation error, for the top-level kind or for a content
\* entry's kind, carries the id of the first applied result.
C16_CarriesFirstId ==
    \A p \in Procs :
        ValidationFailed(frame[p]) =>
            frame[p].error.id = IdOf(frame[p].appliedOp[1])

\* The forge call of a sendOperation has answered.
Forged(f) == InSend(f) /\ Has(f.trace, "signOperationGroup")

\* C17: when the private key of the identity does not decode under edsk, the
\* call fails with the decoding error as soon as forge has answered: nothing
\* is hashed or signed, there is no signed group, apply and inject are never
\* called, and getBlockHead and forge have been called once each.
C17_KeyDecodingAborts ==
    \A p \in Procs :
        LET f == frame[p]
        IN  /\ (Forged(f) /\ f.keyStore.privateKey.prefix # "edsk") =>
                  /\ f.pc = "failed"
                  /\ f.error = KeyDecodingFailure
                  /\ f.signedOpGroup = Null
                  /\ f.operationGroupHash = Null
                  /\ f.applyPayload = Null /\ f.injectPayload = Null
                  /\ SendTrace(f.trace) =
                        <<"getBlockHead", "forgeOperation", "signOperationGroup">>
                  /\ Count(f.trace, "getBlockHead") = 1
                  /\ Count(f.trace, "forgeOperation") = 1
                  /\ ~Has(f.trace, "computeOperationHash")
                  /\ ~Has(f.trace, "applyOperation")
                  /\ ~Has(f.trace, "injectOperation")
            /\ (f.pc = "failed" /\ f.error = KeyDecodingFailure) =>
                  f.keyStore.privateKey.prefix # "edsk"

\* A delegation for the identity whose key does not decode, failed after forge.
C17_Witness ==
    \E p \in Procs :
        /\ frame[p].fn = "sendDelegationOperation"
        /\ frame[p].keyStore = BadKeyStore
        /\ frame[p].pc = "failed"
        /\ frame[p].error = KeyDecodingFailure
        /\ frame[p].forgedOperationGroup = <<"a", "b">>
        /\ mempool = {}

\* The getBlockHead of the call's sendOperation has answered.
HeadFetched(f) ==
    /\ InSend(f)
    /\ ~IsManagerCall(f)
    /\ \/ f.pc \in {"s_forge", "s_apply", "s_inject", "done"}
       \/ f.pc = "failed" /\ Has(f.trace, "forgeOperation")

\* C18 (payloads): the branch of the forge request and the branch of the
\* apply request of a call are the hash of the head its own getBlockHead
\* returned, the protocol of the apply request is the protocol of that head,
\* and the call has fetched the head once.
C18_Payloads ==
    \A p \in Procs :
        LET f == frame[p]
        IN  HeadFetched(f) =>
              /\ Count(f.trace, "getBlockHead") = 1
              /\ f.blockHead.hash \in 0..(Len(chain) - 1)
              /\ f.blockHead.protocol = chain[f.blockHead.hash + 1].protocol
              /\ f.forgePayload.branch = f.blockHead.hash
              /\ f.forgePayload.contents = f.operations
              /\ Has(f.trace, "computeOperationHash") =>
                    /\ Len(f.applyPayload) = 1
                    /\ f.applyPayload[1].branch = f.blockHead.hash
                    /\ f.applyPayload[1].protocol = chain[f.blockHead.hash + 1].protocol
                    /\ f.applyPayload[1].contents = f.operations
                    /\ f.applyPayload[1].signature = f.signedOpGroup.signature

\* C18 (fetch): the head of a call is the newest block at the moment its
\* getBlockHead answers, and the call keeps it while the chain moves on.
C18_FetchStep ==
    \A p \in Procs :
        /\ (frame[p].pc = "s_head" /\ frame'[p].pc = "s_forge") =>
              /\ frame'[p].blockHead.hash = Len(chain) - 1
              /\ frame'[p].blockHead.protocol = chain[Len(chain)].protocol
        /\ (frame[p].pc \in {"s_forge", "s_apply", "s_inject"}
               /\ frame'[p].pc # "idle") =>
              frame'[p].blockHead = frame[p].blockHead

C18_OwnFreshHead == [][C18_Payloads /\ C18_FetchStep]_vars

\* An apply request pending for the first block after the chain has grown.
C18_Witness ==
    \E p \in Procs :
        /\ frame[p].pc = "s_apply"
        /\ frame[p].blockHead.hash = 0
        /\ frame[p].applyPayload[1].branch = 0
        /\ frame[p].applyPayload[1].protocol = Protocols[1]
        /\ Len(chain) = 2
        /\ chain[2].protocol # frame[p].applyPayload[1].protocol

\* C19 as claimed: in a counter-bearing wrapper call the block at which the
\* counter is read is the block used as branch of the forged and applied group.
C19_SameBlock ==
    \A p \in Procs :
        LET f == frame[p]
        IN  (f.fn \in CounterWrappers /\ HeadFetched(f)) =>
              /\ f.forgePayload.branch = f.wHead.hash
              /\ Has(f.trace, "computeOperationHash") =>
                    f.applyPayload[1].branch = f.wHead.hash

\* C19 as amended (state): the counter is read at the head the wrapper
\* fetched, the branch is the hash of the head sendOperation fetched, and the
\* branch block is never older than the block of the counter.
C19_TwoHeads ==
    \A p \in Procs :
        LET f == frame[p]
        IN  (f.fn \in CounterWrappers /\ HeadFetched(f)) =>
              /\ f.account.counter = chain[f.wHead.hash + 1].counter
              /\ f.forgePayload.branch = f.blockHead.hash
              /\ f.wHead.hash <= f.blockHead.hash
              /\ Has(f.trace, "computeOperationHash") =>
                    f.applyPayload[1].branch = f.blockHead.hash

\* C19 as amended (step): the two blocks are the same exactly when the chain
\* has not grown between the wrapper's getBlockHead and sendOperation's.
C19_SecondFetch ==
    \A p \in Procs :
        (frame[p].fn \in CounterWrappers /\ frame[p].pc = "s_head"
            /\ frame'[p].pc = "s_forge") =>
            /\ frame'[p].forgePayload.branch = Len(chain) - 1
            /\ (frame'[p].forgePayload.branch = frame[p].wHead.hash)
                  <=> (Len(chain) - 1 = frame[p].wHead.hash)

C19_BranchFromSecondFetch == [][C19_TwoHeads /\ C19_SecondFetch]_vars

\* A transaction whose counter 41 was read at the first block and whose
\* branch is the second block, where the account's counter is 42.
C19_Witness ==
    \E p \in Procs :
        /\ frame[p].fn = "sendTransactionOperation"
        /\ frame[p].pc = "done"
        /\ frame[p].wHead.hash = 0
        /\ frame[p].account.counter = 41
        /\ frame[p].applyPayload[1].branch = 1
        /\ chain[2].counter = 42

\* A completed call of the log was a save that succeeded.
SavedOk(c) == c.fn \in {"saveWallet", "createWallet"} /\ c.ok

\* A loadWallet has finished; the log holds the calls completed before it.
LoadFinished ==
    /\ wframe.fn = "loadWallet"
    /\ wframe.pc \in {"done", "failed"}

\* C20: after completed saves the file holds the last one only: it is the
\* record of the last save, a loadWallet with the password of the last save
\* returns that save's identities, and a loadWallet with the different
\* password of the save before it fails with a decryption error.
C20_LastWriteWins ==
    /\ (LastSaved /\ wframe.fn \notin {"saveWallet", "createWallet"}) =>
          \E salt \in Salts :
              file = WrittenRecord(wlog[Len(wlog)].identities,
                                   wlog[Len(wlog)].passphrase, salt)
    /\ (LoadFinished /\ LastSaved
           /\ wframe.passphrase = wlog[Len(wlog)].passphrase) =>
          /\ wframe.pc = "done"
          /\ wframe.result = [identities |-> wlog[Len(wlog)].identities]
    /\ (LoadFinished /\ Len(wlog) = 2 /\ SavedOk(wlog[1]) /\ SavedOk(wlog[2])
           /\ wlog[1].passphrase # wlog[2].passphrase
           /\ wframe.passphrase = wlog[1].passphrase) =>
          /\ wframe.pc = "failed"
          /\ wframe.error = DecryptionFailure
          /\ wframe.result = IdleWallet.result

\* Two saves under different passwords, then a load with the first password.
C20_Witness ==
    /\ LoadFinished
    /\ Len(wlog) = 2 /\ SavedOk(wlog[1]) /\ SavedOk(wlog[2])
    /\ wlog[1].fn = "saveWallet" /\ wlog[2].fn = "saveWallet"
    /\ wlog[1].passphrase # wlog[2].passphrase
    /\ wlog[1].identities # wlog[2].identities
    /\ wframe.passphrase = wlog[1].passphrase
    /\ wframe.pc = "failed"
    /\ wframe.error = DecryptionFailure

\* Two saves under one password, then a load that returns the second list.
C20_WitnessSamePassword ==
    /\ LoadFinished /\ wframe.pc = "done"
    /\ Len(wlog) = 2 /\ SavedOk(wlog[1]) /\ SavedOk(wlog[2])
    /\ wlog[1].passphrase = wlog[2].passphrase
    /\ wlog[1].identities # wlog[2].identities
    /\ wframe.result.identities = wlog[2].identities

\* Validation has run on an apply result that is empty or whose first element
\* has no contents array.
Malformed(f) ==
    /\ Has(f.trace, "checkAppliedOperationResults")
    /\ \/ Len(f.appliedOp) = 0
       \/ "contents" \notin DOMAIN f.appliedOp[1]

\* C21: when apply returns an empty array, or a first element without a
\* contents array, validation throws, the call fails and inject is never
\* called; a first element with an absent or null kind and an empty contents
\* array passes validation and the call goes on to inject.
C21_MalformedApplyResult ==
    \A p \in Procs :
        LET f == frame[p]
        IN  /\ Malformed(f) =>
                  /\ f.pc = "failed"
                  /\ f.error.from = "checkAppliedOperationResults"
                  /\ f.error.type \in {"TypeError", "Error"}
                  /\ f.error.type = "Error" =>
                        /\ Len(f.appliedOp) > 0
                        /\ ~EnvelopeOk(f.appliedOp[1])
                  /\ f.trace[Len(f.trace)] = "checkAppliedOperationResults"
                  /\ ~Has(f.trace, "injectOperation")
                  /\ f.injectPayload = Null
            /\ (Validated(f) /\ f.appliedOp[1].kind = Null
                   /\ f.appliedOp[1].contents = << >>) =>
                  /\ PassedValidation(f)
                  /\ f.pc \in {"s_inject", "done", "failed"}
                  /\ f.pc = "failed" => f.error = RemoteCallFailure("injectOperation")
                  /\ f.pc = "done" => Has(f.trace, "injectOperation")

\* A call failed by validation on a first element of supported kind that has
\* no contents array, with nothing broadcast.
C21_Witness ==
    \E p \in Procs :
        /\ Malformed(frame[p])
        /\ frame[p].pc = "failed"
        /\ Len(frame[p].appliedOp) = 1
        /\ frame[p].appliedOp[1].kind = "transaction"
        /\ frame[p].error = TypeError
        /\ mempool = {}

\* A call failed by validation on an empty array.
C21_WitnessEmpty ==
    \E p \in Procs :
        /\ Malformed(frame[p])
        /\ frame[p].pc = "failed"
        /\ frame[p].appliedOp = << >>
        /\ frame[p].error = TypeError

\* A call that injected after an apply result with no kind and no contents.
C21_WitnessPasses ==
    \E p \in Procs :
        /\ Validated(frame[p])
        /\ frame[p].appliedOp[1].kind = Null
        /\ frame[p].appliedOp[1].contents = << >>
        /\ frame[p].pc = "done"
        /\ frame[p].injectPayload \in mempool

====
